---- MODULE Spec2Model ----
(***************************************************************************)
(* A model of auto_review.py: the heuristic C style checker                *)
(* run_checks_on_files and the merge-request loop of main that drives it.  *)
(*                                                                         *)
(* Text is modelled as text: a line is a TLA+ string, a character is a     *)
(* string of length one, and every regular expression of the source is a   *)
(* regular-expression term interpreted by Ends below.  Lines hold no line  *)
(* break (main builds them with str.splitlines) and only ASCII.            *)
(* Indices keep the base the source uses: the line pass counts from 1, the *)
(* span pass from 0; At(lines, j) is Python's lines[j].                    *)
(***************************************************************************)
EXTENDS Integers, Sequences, FiniteSets, TLC

(***************************************************************************)
(* Characters and character classes (Python's re on str, ASCII part)       *)
(***************************************************************************)
LowerCh == {"a","b","c","d","e","f","g","h","i","j","k","l","m",
            "n","o","p","q","r","s","t","u","v","w","x","y","z"}
UpperCh == {"A","B","C","D","E","F","G","H","I","J","K","L","M",
            "N","O","P","Q","R","S","T","U","V","W","X","Y","Z"}
DigitCh == {"0","1","2","3","4","5","6","7","8","9"}
AlphaCh == LowerCh \cup UpperCh
AlnumCh == AlphaCh \cup DigitCh
\* \w
WordCh  == AlnumCh \cup {"_"}
\* [A-Za-z_]
IdStartCh == AlphaCh \cup {"_"}
\* \s
SpaceCh == {" ", "\t", "\n", "\r", "\f"}

Ch(s, p) == SubSeq(s, p, p)

\* F(v): the value of a local variable, bound once, then used in F
With(v, F(_)) == CHOOSE out \in {F(x) : x \in {v}} : TRUE
Min(S) == With(S, LAMBDA T : CHOOSE x \in T : \A y \in T : x <= y)
Max(S) == With(S, LAMBDA T : CHOOSE x \in T : \A y \in T : x >= y)

\* s[a-1:b-1] of Python with 1-based inclusive bounds, "" when empty
Sub(s, a, b) == IF a > b THEN "" ELSE SubSeq(s, a, b)

\* sub in s  (substring test)
Contains(s, sub) ==
    \E t \in {s} : \E p \in 1..(Len(t) - Len(sub) + 1) : SubSeq(t, p, p + Len(sub) - 1) = sub

\* s.count(c) for a one-character c
CountCh(s, c) == With(s, LAMBDA t : Cardinality({p \in 1..Len(t) : Ch(t, p) = c}))

\* s.strip()
Strip(s) ==
    With(s, LAMBDA t :
    With({p \in 1..Len(t) : Ch(t, p) \notin SpaceCh}, LAMBDA keep :
         IF keep = {} THEN "" ELSE SubSeq(t, Min(keep), Max(keep))))

\* s.startswith(pre)
StartsWith(s, pre) == Len(s) >= Len(pre) /\ SubSeq(s, 1, Len(pre)) = pre

(***************************************************************************)
(* Regular expressions.  A term is a tuple; Ends(r, s, p) is the set of    *)
(* positions q such that r matches s from position p up to (not            *)
(* including) q.  A search succeeds when some start has a non-empty Ends.  *)
(* Where the source reads a group or a match end, the operator that models *)
(* it picks the end the backtracking matcher picks (stated there).         *)
(***************************************************************************)
Lit(str)   == <<"lit", str>>
In(S)      == <<"in", S>>
NotIn(S)   == <<"notin", S>>
Cat(rs)    == <<"cat", rs>>
Alt(rs)    == <<"alt", rs>>
Star(r)    == <<"star", r>>
Plus(r)    == <<"plus", r>>
Opt(r)     == <<"opt", r>>
\* \b
WordB      == <<"wb">>
\* ^ and $ (no MULTILINE; lines hold no line break)
Bos        == <<"bos">>
Eos        == <<"eos">>
\* (?<![S]) and (?![S])
NotBehind(S) == <<"nlb", S>>
NotAhead(S)  == <<"nla", S>>
\* .
AnyCh      == NotIn({"\n"})
\* \s* and \s+
Ws0        == Star(In(SpaceCh))
Ws1        == Plus(In(SpaceCh))
\* [A-Za-z_][A-Za-z0-9_]*
IdentRe    == Cat(<<In(IdStartCh), Star(In(WordCh))>>)

IsWordAt(s, p) == p >= 1 /\ p <= Len(s) /\ Ch(s, p) \in WordCh

RECURSIVE Ends(_, _, _)
RECURSIVE CatEnds(_, _, _, _)
RECURSIVE StarEnds(_, _, _, _)

Ends(r, s, p) ==
    CASE r[1] = "lit" ->
           IF p + Len(r[2]) - 1 <= Len(s) /\ Sub(s, p, p + Len(r[2]) - 1) = r[2]
           THEN {p + Len(r[2])} ELSE {}
      [] r[1] = "in" ->
           IF p <= Len(s) /\ Ch(s, p) \in r[2] THEN {p + 1} ELSE {}
      [] r[1] = "notin" ->
           IF p <= Len(s) /\ Ch(s, p) \notin r[2] THEN {p + 1} ELSE {}
      [] r[1] = "cat" -> CatEnds(r[2], 1, s, {p})
      [] r[1] = "alt" -> UNION {Ends(r[2][k], s, p) : k \in DOMAIN r[2]}
      [] r[1] = "star" -> StarEnds(r[2], s, {p}, {p})
      [] r[1] = "plus" ->
           LET first == Ends(r[2], s, p)
           IN  IF first = {} THEN {} ELSE StarEnds(r[2], s, first, first)
      [] r[1] = "opt" -> {p} \cup Ends(r[2], s, p)
      [] r[1] = "wb" ->
           IF IsWordAt(s, p - 1) # IsWordAt(s, p) THEN {p} ELSE {}
      [] r[1] = "bos" -> IF p = 1 THEN {p} ELSE {}
      [] r[1] = "eos" -> IF p = Len(s) + 1 THEN {p} ELSE {}
      [] r[1] = "nlb" ->
           IF p > 1 /\ Ch(s, p - 1) \in r[2] THEN {} ELSE {p}
      [] r[1] = "nla" ->
           IF p <= Len(s) /\ Ch(s, p) \in r[2] THEN {} ELSE {p}

CatEnds(rs, k, s, P) ==
    IF k > Len(rs) \/ P = {} THEN P
    ELSE UNION {CatEnds(rs, k + 1, s, Q) : Q \in {UNION {Ends(rs[k], s, q) : q \in P}}}

StarEnds(r, s, frontier, acc) ==
    UNION {IF nxt = {} THEN acc
           ELSE UNION {StarEnds(r, s, nxt, all) : all \in {acc \cup nxt}} :
           nxt \in {(UNION {Ends(r, s, q) : q \in frontier}) \ acc}}

\* the start positions at which r matches
Starts(r, s) == With(s, LAMBDA t : {p \in 1..(Len(t) + 1) : Ends(r, t, p) # {}})
\* re.search(r, s) is not None
Search(r, s) == Starts(r, s) # {}
\* re.match(r, s) is not None
Match(r, s) == \E t \in {s} : Ends(r, t, 1) # {}

(***************************************************************************)
(* Issues.  The source's dict {'file', 'line', 'rule', 'message'}; the     *)
(* message is kept as a tag naming the f-string, the name it interpolates  *)
(* and the number it interpolates ("" and 0 when it has none).             *)
(***************************************************************************)
Issue(file, line, rule, tag, name, num) ==
    [file |-> file, line |-> line, rule |-> rule, tag |-> tag, name |-> name, num |-> num]

\* thresholds of the rules (lines 257, 288, 353, 358, 391, 406)
MaxFuncLen    == 30
MaxNesting    == 3
MaxParams     == 5
MaxReturns    == 2
ScanfWindow   == 3
AllocLookahead == 10

\* Python's lines[j] (0-based) on a TLA+ sequence
At(lines, j) == lines[j + 1]

(***************************************************************************)
(* Regular expressions and tables of the source                            *)
(***************************************************************************)
\* style_patterns: camelCase, snake_case, CamelCase
style_patterns ==
    << Cat(<<Bos, In(LowerCh), Star(In(AlnumCh)), Eos>>),
       Cat(<<Bos, In(LowerCh), Star(In(LowerCh \cup DigitCh \cup {"_"})), Eos>>),
       Cat(<<Bos, In(UpperCh), Star(In(AlnumCh)), Eos>>) >>

\* the index of the first style the name matches, 0 for none (matched_style)
MatchedStyle(name) ==
    LET hit == {k \in DOMAIN style_patterns : Match(style_patterns[k], name)}
    IN  IF hit = {} THEN 0 ELSE Min(hit)

scanf_re == Cat(<<WordB, Lit("scanf"), Ws0, Lit("(")>>)
exit_re  == Cat(<<WordB, Lit("exit"), Ws0, Lit("(")>>)
goto_re  == Cat(<<WordB, Lit("goto"), WordB>>)
return_re == Cat(<<WordB, Lit("return"), WordB>>)
translit_tokens ==
    <<"vvod", "vivod", "chislo", "soobshchenie", "massiv", "stroka", "otvet", "perechislenie">>

\* number_literal_re: (?<![_A-Za-z0-9])(-?\d+(\.\d+)?)(?![_A-Za-z0-9])
number_literal_re ==
    Cat(<<NotBehind(WordCh), Opt(Lit("-")), Plus(In(DigitCh)),
          Opt(Cat(<<Lit("."), Plus(In(DigitCh))>>)), NotAhead(WordCh)>>)

UpperLetters == "ABCDEFGHIJKLMNOPQRSTUVWXYZ"
LowerLetters == "abcdefghijklmnopqrstuvwxyz"
LowerOf(c) ==
    IF c \in UpperCh
    THEN Ch(LowerLetters, CHOOSE k \in 1..Len(UpperLetters) : Ch(UpperLetters, k) = c)
    ELSE c
\* s.lower()
RECURSIVE LowerFrom(_, _)
LowerFrom(s, p) == IF p > Len(s) THEN "" ELSE LowerOf(Ch(s, p)) \o LowerFrom(s, p + 1)
ToLower(s) == LowerFrom(s, 1)

\* re.sub(r, repl, s) for an r that matches no empty string: leftmost matches,
\* left to right; the end of each is the shortest (lazy) or the longest.
RECURSIVE SubAll(_, _, _, _, _)
SubAll(r, repl, s, lazy, p) ==
    IF p > Len(s) THEN ""
    ELSE CHOOSE out \in
             {IF E = {} THEN Ch(s, p) \o SubAll(r, repl, s, lazy, p + 1)
              ELSE CHOOSE rest \in {SubAll(r, repl, s, lazy, q) :
                                       q \in {IF lazy THEN Min(E) ELSE Max(E)}} : TRUE :
              E \in {Ends(r, s, p)}} : TRUE

block_comment_re == Cat(<<Lit("/*"), Star(AnyCh), Lit("*/")>>)
line_comment_re  == Cat(<<Lit("//"), Star(AnyCh)>>)
\* "([^"\\]|\\.)*"
string_literal_re ==
    Cat(<<Lit("\""), Star(Alt(<<NotIn({"\"", "\\"}), Cat(<<Lit("\\"), AnyCh>>)>>)), Lit("\"")>>)
\* '([^'\\]|\\.)*'
char_literal_re ==
    Cat(<<Lit("'"), Star(Alt(<<NotIn({"'", "\\"}), Cat(<<Lit("\\"), AnyCh>>)>>)), Lit("'")>>)

\* the four re.sub of the rule-0 block: the line without block comments, line
\* comments, string literals and character literals
StripForAmp(line) ==
    With(SubAll(block_comment_re, "", line, TRUE, 1), LAMBDA a :
    With(SubAll(line_comment_re, "", a, FALSE, 1), LAMBDA b :
    With(SubAll(string_literal_re, "", b, FALSE, 1), LAMBDA c :
         SubAll(char_literal_re, "", c, FALSE, 1))))

\* pattern of the rule-0 block, as written in the source:
\* (^|\s)&\s*([A-Za-z_][A-Za-z0-9_]*)\s*$$[^$$]+\]
\* where each $ is the end-of-string anchor and [^$$] is "any character but $"
amp_pattern ==
    Cat(<<Alt(<<Bos, In(SpaceCh)>>), Lit("&"), Ws0, IdentRe, Ws0,
          Eos, Eos, Plus(NotIn({"$"})), Lit("]")>>)

\* rule 0 on one line: re.search(pattern, ln) and the test on ln[match.end()]
AmpArrFires(line) ==
    \E ln \in {StripForAmp(line)} : \E st \in {Starts(amp_pattern, ln)} :
        /\ st # {}
        /\ \E e \in {Max(Ends(amp_pattern, ln, Min(st)))} :
               e > Len(ln) \/ Ch(ln, e) \notin {")", "*"}

\* func_def_re = ^[\w\*\s]+?\b([A-Za-z_][A-Za-z0-9_]*)\s*\(([^;]*)\)\s*\{
\* matched with re.match on the stripped line.  The lazy prefix takes the
\* shortest length that lets the rest match; the name is greedy (its longest
\* end that lets the rest match); group 2 is greedy (the last closing
\* parenthesis followed by \s*{ with no ';' before it).
FuncPrefixCh == WordCh \cup {"*"} \cup SpaceCh
func_def_open  == Cat(<<Ws0, Lit("(")>>)
func_def_close == Cat(<<Lit(")"), Ws0, Lit("{")>>)
func_def_tail  == Cat(<<func_def_open, Star(NotIn({";"})), func_def_close>>)

FuncDefPrefixes(s) ==
    {n \in 1..Len(s) :
        /\ \A k \in 1..n : Ch(s, k) \in FuncPrefixCh
        /\ Ends(WordB, s, n + 1) # {}
        /\ \E e \in Ends(IdentRe, s, n + 1) : Ends(func_def_tail, s, e) # {}}

NoFunc == [ok |-> FALSE, name |-> "", params |-> ""]

\* m = func_def_re.match(s): [ok, name = m.group(1), params = m.group(2)]
func_def_re(str) ==
    With(str, LAMBDA s :
    With(FuncDefPrefixes(s), LAMBDA P :
        IF P = {} THEN NoFunc
        ELSE LET n == Min(P)
                 e == Max({x \in Ends(IdentRe, s, n + 1) : Ends(func_def_tail, s, x) # {}})
                 a == Max(Ends(func_def_open, s, e))
                 c == Max({x \in a..Len(s) :
                             /\ \A k \in a..(x - 1) : Ch(s, k) # ";"
                             /\ Ends(func_def_close, s, x) # {}})
             IN  [ok |-> TRUE, name |-> Sub(s, n + 1, e - 1), params |-> Sub(s, a, c - 1)]))

\* param_count of rule 12 (lines 251-256 and 361-364), params already stripped
ParamCount(params) ==
    IF params # "" /\ params # "void" THEN CountCh(params, ",") + 1 ELSE 0

(***************************************************************************)
(* Rule 10: the return count of the line pass.  i is the 1-based number of *)
(* the definition line; the loop is "for j in range(i, len(lines))" over   *)
(* lines[j], so it starts at the line after the definition line.           *)
(***************************************************************************)
RECURSIVE ReturnScan(_, _, _, _, _)
ReturnScan(lines, j, brace_level, return_count, inside_function) ==
    IF j >= Len(lines) THEN return_count
    ELSE LET l   == At(lines, j)
             ins == inside_function \/ Contains(l, "{")
             bl1 == IF Contains(l, "{") THEN brace_level + CountCh(l, "{") ELSE brace_level
             rc  == IF ins /\ Search(return_re, l) THEN return_count + 1 ELSE return_count
             bl2 == IF Contains(l, "}") /\ ins THEN bl1 - CountCh(l, "}") ELSE bl1
         IN  IF Contains(l, "}") /\ ins /\ bl2 = 0 THEN rc
             ELSE ReturnScan(lines, j + 1, bl2, rc, ins)

ReturnCount(lines, i) == ReturnScan(lines, i, 0, 0, FALSE)

\* var_decl: \b(?:int|char|float|double|long|short|size_t|unsigned|struct)\s+([A-Za-z_][A-Za-z0-9_]*)
\* with re.search: the leftmost match, greedy \s+ and name.
type_keywords ==
    <<"int", "char", "float", "double", "long", "short", "size_t", "unsigned", "struct">>
var_decl_head ==
    Cat(<<WordB, Alt([k \in DOMAIN type_keywords |-> Lit(type_keywords[k])]), Ws1>>)
var_decl_re == Cat(<<var_decl_head, IdentRe>>)

\* var_decl.group(1), "" when var_decl is None (a name is never empty)
VarDeclName(line) ==
    LET st == Starts(var_decl_re, line)
    IN  IF st = {} THEN ""
        ELSE LET a == Max({x \in Ends(var_decl_head, line, Min(st)) :
                              Ends(IdentRe, line, x) # {}})
             IN  Sub(line, a, Max(Ends(IdentRe, line, a)) - 1)

(***************************************************************************)
(* Sequence helpers                                                        *)
(***************************************************************************)
\* F(a) \o F(a+1) \o ... \o F(b): what a for loop over range(a, b+1) appends
RECURSIVE ConcatRange(_, _, _)
ConcatRange(F(_), a, b) == IF a > b THEN <<>> ELSE F(a) \o ConcatRange(F, a + 1, b)

\* sep.join(seq[a..b]) for 1-based inclusive a..b
RECURSIVE Join(_, _, _, _)
Join(seq, sep, a, b) ==
    IF a > b THEN ""
    ELSE IF a = b THEN seq[a]
    ELSE seq[a] \o sep \o Join(seq, sep, a + 1, b)

\* "\n".join(lines[lo:hi]) with Python's 0-based half-open slice, clipped as Python clips
JoinSlice(lines, lo, hi) ==
    Join(lines, "\n", (IF lo < 0 THEN 0 ELSE lo) + 1, IF hi > Len(lines) THEN Len(lines) ELSE hi)

\* s.split(c) for a one-character c
RECURSIVE SplitOn(_, _)
SplitOn(s, c) ==
    LET hits == {p \in 1..Len(s) : Ch(s, p) = c}
    IN  IF hits = {} THEN <<s>>
        ELSE <<Sub(s, 1, Min(hits) - 1)>> \o SplitOn(Sub(s, Min(hits) + 1, Len(s)), c)

\* s with every character of S removed
RECURSIVE RemoveChars(_, _)
RemoveChars(s, S) ==
    IF s = "" THEN ""
    ELSE (IF Ch(s, 1) \in S THEN "" ELSE Ch(s, 1)) \o RemoveChars(Sub(s, 2, Len(s)), S)

\* s.split()[-1], "" when s.split() is empty
LastToken(s) ==
    LET t    == Strip(s)
        gaps == {p \in 1..Len(t) : Ch(t, p) \in SpaceCh}
    IN  IF t = "" THEN "" ELSE Sub(t, (IF gaps = {} THEN 0 ELSE Max(gaps)) + 1, Len(t))

\* [m.group(1) for m in r.finditer(s)] from position p: leftmost matches, each
\* with its longest end (r matches no empty string)
RECURSIVE FindAll(_, _, _)
FindAll(r, s, p) ==
    IF p > Len(s) THEN <<>>
    ELSE LET E == Ends(r, s, p)
         IN  IF E = {} THEN FindAll(r, s, p + 1)
             ELSE <<Sub(s, p, Max(E) - 1)>> \o FindAll(r, s, Max(E))

(***************************************************************************)
(* The line pass (lines 204-313): the issues of line number i (1-based)    *)
(***************************************************************************)
\* line 206: the line is skipped by the line pass
LineSkipped(line) ==
    \/ Match(Cat(<<Bos, Ws0, Lit("#")>>), line)
    \/ Match(Cat(<<Bos, Ws0, Lit("//")>>), line)
    \/ Match(Cat(<<Bos, Ws0, Lit("/*")>>), line)

\* lines 210-212: rule 3, one issue per token found (re.I)
TranslitIssues(path, line, i) ==
    ConcatRange(LAMBDA k :
        IF Search(Cat(<<WordB, Lit(translit_tokens[k]), WordB>>), ToLower(line))
        THEN <<Issue(path, i, 3, "translit", translit_tokens[k], 0)>> ELSE <<>>,
        1, Len(translit_tokens))

\* lines 215-231: rule 0
AmpIssues(path, line, i) ==
    IF AmpArrFires(line) THEN <<Issue(path, i, 0, "amp_arr", "", 0)>> ELSE <<>>

\* lines 233-294: rules 2, 12 and 10 on a function definition line
FuncLineIssues(path, lines, i) ==
    With(func_def_re(Strip(lines[i])), LAMBDA m :
    LET param_count  == ParamCount(Strip(m.params))
        return_count == ReturnCount(lines, i)
    IN  IF ~m.ok THEN <<>>
        ELSE (IF MatchedStyle(m.name) = 0
              THEN <<Issue(path, i, 2, "func_style", m.name, 0)>> ELSE <<>>)
          \o (IF param_count > MaxParams
              THEN <<Issue(path, i, 12, "param_count", m.name, param_count)>> ELSE <<>>)
          \o (IF return_count > MaxReturns
              THEN <<Issue(path, i, 10, "returns", m.name, return_count)>> ELSE <<>>))

\* lines 298-313: rule 2 on a variable declaration
VarLineIssues(path, line, i) ==
    LET vname == VarDeclName(line)
    IN  IF vname # "" /\ MatchedStyle(vname) = 0
        THEN <<Issue(path, i, 2, "var_style", vname, 0)>> ELSE <<>>

LineIssues(path, lines, i) ==
    IF LineSkipped(lines[i]) THEN <<>>
    ELSE TranslitIssues(path, lines[i], i) \o AmpIssues(path, lines[i], i)
         \o FuncLineIssues(path, lines, i) \o VarLineIssues(path, lines[i], i)

(***************************************************************************)
(* The span pass (lines 317-464).  idx, start_idx, end_idx, j, k and t are *)
(* 0-based as in the source; nlines = len(lines).                          *)
(***************************************************************************)
\* lines 335-350: the brace-counting loop from line j; [end_idx, max_brace].
\* Within a line the braces of lnos are added up; max_brace is updated once per
\* line, after the line.
RECURSIVE SpanScan(_, _, _, _, _)
SpanScan(lines, j, brace, started, max_brace) ==
    IF j >= Len(lines) THEN [end_idx |-> j, max_brace |-> max_brace]
    ELSE With(SubAll(string_literal_re, "\"\"", At(lines, j), FALSE, 1), LAMBDA lnos :
         LET b    == brace + CountCh(lnos, "{") - CountCh(lnos, "}")
             st   == started \/ CountCh(lnos, "{") > 0
             mb   == IF st /\ b > max_brace THEN b ELSE max_brace
         IN  IF st /\ b = 0 THEN [end_idx |-> j, max_brace |-> mb]
             ELSE SpanScan(lines, j + 1, b, st, mb))

\* the function span that starts at idx (lines 325-351): m is the match there
SpanAt(path, lines, idx) ==
    With(func_def_re(Strip(At(lines, idx))), LAMBDA m :
    With(SpanScan(lines, idx, 0, FALSE, 0), LAMBDA sc :
        [file |-> path, fname |-> m.name, params |-> Strip(m.params), start_idx |-> idx,
         end_idx |-> sc.end_idx, max_brace |-> sc.max_brace,
         func_len |-> sc.end_idx - idx + 1]))

\* the last index of range(start_idx, min(end_idx+1, nlines))
LastLine(lines, sp) ==
    IF sp.end_idx + 1 < Len(lines) THEN sp.end_idx ELSE Len(lines) - 1

\* ShapeIssues with the length test of line 353 as func_len >= 30
ShapeIssues_ge(path, sp) ==
    LET nesting     == IF sp.max_brace - 1 > 0 THEN sp.max_brace - 1 ELSE 0
        param_count == ParamCount(sp.params)
    IN  (IF sp.func_len >= MaxFuncLen
         THEN <<Issue(path, sp.start_idx + 1, 4, "length", sp.fname, sp.func_len)>> ELSE <<>>)
     \o (IF nesting > MaxNesting
         THEN <<Issue(path, sp.start_idx + 1, 12, "nesting", sp.fname, nesting)>> ELSE <<>>)
     \o (IF param_count > MaxParams
         THEN <<Issue(path, sp.start_idx + 1, 12, "param_count2", sp.fname, param_count)>>
         ELSE <<>>)

\* lines 352-366: rule 4 and the two rule 12 of the span
ShapeIssues(path, sp) ==
    LET nesting     == IF sp.max_brace - 1 > 0 THEN sp.max_brace - 1 ELSE 0
        param_count == ParamCount(sp.params)
    IN  (IF sp.func_len > MaxFuncLen
         THEN <<Issue(path, sp.start_idx + 1, 4, "length", sp.fname, sp.func_len)>> ELSE <<>>)
     \o (IF nesting > MaxNesting
         THEN <<Issue(path, sp.start_idx + 1, 12, "nesting", sp.fname, nesting)>> ELSE <<>>)
     \o (IF param_count > MaxParams
         THEN <<Issue(path, sp.start_idx + 1, 12, "param_count2", sp.fname, param_count)>>
         ELSE <<>>)

\* lines 371-381: the name taken from one comma-separated part of params
ParamName(part) ==
    RemoveChars(Strip(RemoveChars(LastToken(Strip(part)), {"*"})), {"[", "]", "."})

\* lines 368-381: param_names
ParamNames(params) ==
    IF params # "" /\ params # "void"
    THEN LET parts == SplitOn(params, ",")
         IN  ConcatRange(LAMBDA k :
                 IF ParamName(parts[k]) # "" THEN <<ParamName(parts[k])>> ELSE <<>>,
                 1, Len(parts))
    ELSE <<>>

\* line 382: body_text, the lines of the span joined, the definition line included
BodyText(lines, sp) ==
    IF sp.end_idx < Len(lines) THEN JoinSlice(lines, sp.start_idx, sp.end_idx + 1)
    ELSE JoinSlice(lines, sp.start_idx, Len(lines))

\* lines 383-385: rule 18
UnusedParamIssues(path, lines, sp) ==
    LET names == ParamNames(sp.params)
        body_text == BodyText(lines, sp)
    IN  ConcatRange(LAMBDA k :
            IF ~Search(Cat(<<WordB, Lit(names[k]), WordB>>), body_text)
            THEN <<Issue(path, sp.start_idx + 1, 18, "unused_param", names[k], 0)>>
            ELSE <<>>,
            1, Len(names))

\* ScanfContext with the slice of line 391 ending at k+3 instead of k+4
ScanfContext_short(lines, sp, k) ==
    JoinSlice(lines,
              IF k - ScanfWindow > sp.start_idx THEN k - ScanfWindow ELSE sp.start_idx,
              IF k + ScanfWindow < Len(lines) THEN k + ScanfWindow ELSE Len(lines))

\* line 391: context of the scanf at line k
ScanfContext(lines, sp, k) ==
    JoinSlice(lines,
              IF k - ScanfWindow > sp.start_idx THEN k - ScanfWindow ELSE sp.start_idx,
              IF k + ScanfWindow + 1 < Len(lines) THEN k + ScanfWindow + 1 ELSE Len(lines))

\* line 392: no guard in the context
ScanfUnguarded(context) ==
    /\ ~Contains(context, "==") /\ ~Contains(context, "!=") /\ ~Contains(context, "if")
    /\ ~Contains(context, "return") /\ ~Contains(context, "=")

\* lines 388-393: rule 8
ScanfIssues(path, lines, sp) ==
    ConcatRange(LAMBDA k :
        IF Search(scanf_re, At(lines, k)) /\ ScanfUnguarded(ScanfContext(lines, sp, k))
        THEN <<Issue(path, k + 1, 8, "scanf", "", 0)>> ELSE <<>>,
        sp.start_idx, LastLine(lines, sp))

\* lines 452-456: rules 25 and 26
ExitGotoIssues(path, lines, sp) ==
    ConcatRange(LAMBDA k :
        (IF Search(exit_re, At(lines, k)) THEN <<Issue(path, k + 1, 25, "exit", "", 0)>> ELSE <<>>)
     \o (IF Search(goto_re, At(lines, k)) THEN <<Issue(path, k + 1, 26, "goto", "", 0)>> ELSE <<>>),
        sp.start_idx, LastLine(lines, sp))

\* lines 458-460: rule 14
float_re   == Cat(<<Plus(In(DigitCh)), Lit("."), Plus(In(DigitCh))>>)
compare_re == Alt(<<Lit("=="), Lit(">="), Lit("<=")>>)
FloatCmpIssues(path, lines, sp) ==
    ConcatRange(LAMBDA k :
        IF Search(float_re, At(lines, k)) /\ Search(compare_re, At(lines, k))
        THEN <<Issue(path, k + 1, 14, "float_cmp", "", 0)>> ELSE <<>>,
        sp.start_idx, LastLine(lines, sp))

(***************************************************************************)
(* Rule 15 (lines 395-450).  The detector appends nothing (its append is   *)
(* commented out), but it reads lines[t] for t up to min(k+11, end_idx+1)  *)
(* - 1, and end_idx = nlines when the braces of the span never balance.    *)
(***************************************************************************)
alloc_names == Alt(<<Lit("malloc"), Lit("realloc"), Lit("calloc")>>)
\* line 398
alloc_in_cond_re ==
    Cat(<<WordB, Alt(<<Lit("if"), Lit("while")>>), Ws0, Lit("("), Ws0, Lit("!"), Ws0,
          Star(Lit("(")), Ws0, IdentRe, Ws0, Lit("="), Ws0, alloc_names, Ws0, Lit("(")>>)
\* line 401, after group 1
alloc_assign_tail ==
    Cat(<<Ws0, Lit("="), Ws0, Star(AnyCh), WordB, alloc_names, Ws0, Lit("(")>>)
alloc_assign_re == Cat(<<IdentRe, alloc_assign_tail>>)

\* v = m.group(1) of line 401: leftmost match, the name greedy
AllocVar(line) ==
    LET p == Min(Starts(alloc_assign_re, line))
        e == Max({x \in Ends(IdentRe, line, p) : Ends(alloc_assign_tail, line, x) # {}})
    IN  Sub(line, p, e - 1)

IfOpen == Cat(<<WordB, Lit("if"), Ws0, Lit("("), Ws0>>)
\* line 439, and the text from the character before the end of its match (line 445)
func_call_re(v) ==
    Cat(<<IfOpen, IdentRe, Ws0, Lit("("), Ws0, Lit(v), In(SpaceCh \cup {",", ")"})>>)
AfterCall(check_line, v) ==
    LET p == Min(Starts(func_call_re(v), check_line))
        e == Max(Ends(func_call_re(v), check_line, p))
    IN  Sub(check_line, e - 1, Len(check_line))

\* lines 409-448: the checks on one line after the allocation
AllocChecked(check_line, v) ==
    \/ Search(Cat(<<IfOpen, Lit("!"), Ws0, Lit(v), Ws0, Lit(")")>>), check_line)
    \/ Search(Cat(<<IfOpen, Lit(v), Ws0, Lit("=="), Ws0, Lit("NULL"), Ws0, Lit(")")>>), check_line)
    \/ Search(Cat(<<IfOpen, Lit(v), Ws0, Lit("=="), Ws0, Lit("0"), Ws0, Lit(")")>>), check_line)
    \/ Search(Cat(<<IfOpen, Lit(v), Ws0, Lit("!="), Ws0, Lit("NULL"), Ws0, Lit(")")>>), check_line)
    \/ Search(Cat(<<IfOpen, Lit(v), Ws0, Lit("!="), Ws0, Lit("0"), Ws0, Lit(")")>>), check_line)
    \/ Search(Cat(<<Lit("assert"), Ws0, Lit("("), Ws0, Lit(v), Ws0, Lit("!="), Ws0,
                    Lit("NULL"), Ws0, Lit(")")>>), check_line)
    \/ Search(Cat(<<IfOpen, Lit("!"), Ws0, Lit(v), Ws0, Lit(")"), Ws0, Lit("return")>>), check_line)
    \/ Search(Cat(<<IfOpen, Lit(v), Ws0, Lit(")")>>), check_line)
    \/ /\ Search(func_call_re(v), check_line)
       /\ LET after == AfterCall(check_line, v)
          IN  \/ Search(Cat(<<Lit("=="), Ws0, Lit("NULL")>>), after)
              \/ Search(Cat(<<Lit("=="), Ws0, Lit("0")>>), after)
              \/ Search(Cat(<<Lit("!="), Ws0, Lit("NULL")>>), after)
              \/ Search(Cat(<<Lit("!="), Ws0, Lit("0")>>), after)

\* lines 406-448: the loop over t in range(k+1, stop); "raise" is the IndexError
\* of lines[t] with t = len(lines)
RECURSIVE AllocLookaheadScan(_, _, _, _)
AllocLookaheadScan(lines, v, t, stop) ==
    IF t >= stop THEN "unchecked"
    ELSE IF t >= Len(lines) THEN "raise"
    ELSE IF AllocChecked(At(lines, t), v) THEN "checked"
    ELSE AllocLookaheadScan(lines, v, t + 1, stop)

\* lines 396-448 for line k: "skip", "checked", "unchecked" or "raise"
AllocLine(lines, sp, k) ==
    IF Search(alloc_in_cond_re, At(lines, k)) THEN "skip"
    ELSE IF ~Search(alloc_assign_re, At(lines, k)) THEN "skip"
    ELSE AllocLookaheadScan(lines, AllocVar(At(lines, k)), k + 1,
            IF k + AllocLookahead + 1 < sp.end_idx + 1
            THEN k + AllocLookahead + 1 ELSE sp.end_idx + 1)

\* the rule-15 loop of the span raises IndexError
AllocRaises(lines, sp) ==
    \E k \in sp.start_idx..LastLine(lines, sp) : AllocLine(lines, sp, k) = "raise"

(***************************************************************************)
(* Rules 5 and 21 (lines 467-480): the issues of line number i (1-based)   *)
(***************************************************************************)
\* MagicSkipped with the first test of line 468 as startswith('#define')
MagicSkipped_define(l) ==
    StartsWith(Strip(l), "#define") \/ Contains(l, "enum") \/ Contains(ToLower(l), "define")

\* line 468
MagicSkipped(l) ==
    StartsWith(Strip(l), "#") \/ Contains(l, "enum") \/ Contains(ToLower(l), "define")

AllowedLiterals == {"0", "1", "-1"}

\* MagicIssues with the lines of line 467 counted from 0 (enumerate without start=1)
MagicIssues_from0(path, lines, i) ==
    IF MagicSkipped(lines[i]) THEN <<>>
    ELSE LET vals == FindAll(number_literal_re, lines[i], 1)
         IN  ConcatRange(LAMBDA k :
                 IF vals[k] \in AllowedLiterals THEN <<>>
                 ELSE <<Issue(path, i - 1, 5, "magic", vals[k], 0)>>,
                 1, Len(vals))

\* lines 470-475
MagicIssues(path, lines, i) ==
    IF MagicSkipped(lines[i]) THEN <<>>
    ELSE LET vals == FindAll(number_literal_re, lines[i], 1)
         IN  ConcatRange(LAMBDA k :
                 IF vals[k] \in AllowedLiterals THEN <<>>
                 ELSE <<Issue(path, i, 5, "magic", vals[k], 0)>>,
                 1, Len(vals))

\* line 479: \b(\w+)\s*=\s*\1\s*\+\s*0\b  or  \b(\w+)\s*=\s*\1\s*\*\s*1\b
RedundantMatch(l, op, unit) ==
    \E p \in 1..Len(l) :
        /\ Ends(WordB, l, p) # {}
        /\ \E e \in Ends(Plus(In(WordCh)), l, p) :
              Ends(Cat(<<Ws0, Lit("="), Ws0, Lit(Sub(l, p, e - 1)), Ws0, Lit(op), Ws0,
                         Lit(unit), WordB>>), l, e) # {}

RedundantIssues(path, lines, i) ==
    IF RedundantMatch(lines[i], "+", "0") \/ RedundantMatch(lines[i], "*", "1")
    THEN <<Issue(path, i, 21, "redundant", "", 0)>> ELSE <<>>

(***************************************************************************)
(* State                                                                   *)
(***************************************************************************)
VARIABLES
    \* run_checks_on_files
    files,          \* file_lines_map in iteration order: <<[path, lines], ...>>
    fileIdx,        \* the file the outer for loop is at (1-based)
    epc,            \* where run_checks_on_files is: "off", "lines", "spans", "magic",
                    \* "redundant", "globals", "globals_inner", "returned", "raised"
    i,              \* the loop index of the line, rule-5 and rule-21 passes (1-based)
    idx,            \* the scan position of the span pass (0-based)
    issues,         \* the local list issues
    spans,          \* the function spans located so far, in order
    \* main
    pc,             \* where main is: "standalone" (run_checks_on_files called alone),
                    \* "mr_next", "pipeline", "discussions", "fetch", "checks", "decide",
                    \* "done", "aborted"
    APPROVE_ON_PASS,
    mr_count,       \* merge requests taken from mrs so far
    mr,             \* the merge request of this iteration
    title_issues, conflict_issues, discussion_issues,
    pipelines,      \* what the pipelines endpoint answered for this merge request
    ok_pipeline, unresolved,
    details,        \* what the changes endpoint and the raw-file requests answered
    fetched,        \* fetch_changed_c_files was called for this merge request
    mr_issues,      \* main's list issues
    approval,       \* approve_mr for this merge request: "not_called", "ok", "failed"
    summary,        \* post_mr_summary for this merge request: "none", "pass", "fail"
    inline_posted

engineVars == <<files, fileIdx, epc, i, idx, issues, spans>>
mrVars == <<mr, title_issues, conflict_issues, discussion_issues, pipelines, ok_pipeline, unresolved,
            details, fetched, mr_issues, approval, summary, inline_posted>>
mainVars == <<pc, APPROVE_ON_PASS, mr_count, mrVars>>
vars == <<engineVars, mainVars>>

path  == files[fileIdx].path
lines == files[fileIdx].lines

(***************************************************************************)
(* run_checks_on_files, one loop iteration per step                        *)
(***************************************************************************)
\* LinePass without the reset of line 318 (idx = 0): the span pass of a file
\* starts where the span pass of the file before it stopped
LinePass_keep_idx ==
    /\ epc = "lines"
    /\ IF i <= Len(lines)
       THEN /\ issues' = issues \o LineIssues(path, lines, i)
            /\ i' = i + 1
            /\ UNCHANGED <<epc, idx>>
       ELSE /\ epc' = "spans"
            /\ UNCHANGED <<issues, i, idx>>
    /\ UNCHANGED <<files, fileIdx, spans, mainVars>>

\* lines 204-313: one iteration of the line pass, or its end
LinePass ==
    /\ epc = "lines"
    /\ IF i <= Len(lines)
       THEN /\ issues' = issues \o LineIssues(path, lines, i)
            /\ i' = i + 1
            /\ UNCHANGED <<epc, idx>>
       ELSE /\ epc' = "spans"
            /\ idx' = 0
            /\ UNCHANGED <<issues, i>>
    /\ UNCHANGED <<files, fileIdx, spans, mainVars>>

\* the issues a span appends before the rule-15 loop, and after it
SpanIssuesBefore(sp) ==
    ShapeIssues(path, sp) \o UnusedParamIssues(path, lines, sp) \o ScanfIssues(path, lines, sp)
\* SpanIssuesAfter with the append of lines 449-450 in force: a rule-15 issue
\* for every allocation left unchecked by the lookahead
SpanIssuesAfter_rule15(sp) ==
       ConcatRange(LAMBDA k :
           IF AllocLine(lines, sp, k) = "unchecked"
           THEN <<Issue(path, k + 1, 15, "alloc", "", 0)>> ELSE <<>>,
           sp.start_idx, LastLine(lines, sp))
    \o ExitGotoIssues(path, lines, sp) \o FloatCmpIssues(path, lines, sp)
SpanIssuesAfter(sp) ==
    ExitGotoIssues(path, lines, sp) \o FloatCmpIssues(path, lines, sp)

\* SpanPass with line 462 as idx += 1: after a span the scan goes on at the
\* line after its definition line
SpanPass_reenter ==
    /\ epc = "spans"
    /\ IF idx >= Len(lines)
       THEN /\ epc' = "magic"
            /\ i' = 1
            /\ UNCHANGED <<idx, issues, spans>>
       ELSE IF StartsWith(Strip(At(lines, idx)), "#") \/ ~func_def_re(Strip(At(lines, idx))).ok
       THEN /\ idx' = idx + 1
            /\ UNCHANGED <<epc, i, issues, spans>>
       ELSE \E sp \in {SpanAt(path, lines, idx)} :
                /\ spans' = Append(spans, sp)
                /\ IF AllocRaises(lines, sp)
                   THEN /\ issues' = issues \o SpanIssuesBefore(sp)
                        /\ epc' = "raised"
                        /\ UNCHANGED <<idx, i>>
                   ELSE /\ issues' = issues \o SpanIssuesBefore(sp) \o SpanIssuesAfter(sp)
                        /\ idx' = idx + 1
                        /\ UNCHANGED <<epc, i>>
    /\ UNCHANGED <<files, fileIdx, mainVars>>

\* lines 319-464: one iteration of the while loop of the span pass, or its end
SpanPass ==
    /\ epc = "spans"
    /\ IF idx >= Len(lines)
       THEN /\ epc' = "magic"
            /\ i' = 1
            /\ UNCHANGED <<idx, issues, spans>>
       ELSE IF StartsWith(Strip(At(lines, idx)), "#") \/ ~func_def_re(Strip(At(lines, idx))).ok
       THEN /\ idx' = idx + 1
            /\ UNCHANGED <<epc, i, issues, spans>>
       ELSE \E sp \in {SpanAt(path, lines, idx)} :
                /\ spans' = Append(spans, sp)
                /\ IF AllocRaises(lines, sp)
                   THEN /\ issues' = issues \o SpanIssuesBefore(sp)
                        /\ epc' = "raised"
                        /\ UNCHANGED <<idx, i>>
                   ELSE /\ issues' = issues \o SpanIssuesBefore(sp) \o SpanIssuesAfter(sp)
                        /\ idx' = sp.end_idx + 1
                        /\ UNCHANGED <<epc, i>>
    /\ UNCHANGED <<files, fileIdx, mainVars>>

\* lines 467-475: one iteration of the rule-5 loop, or its end
MagicPass ==
    /\ epc = "magic"
    /\ IF i <= Len(lines)
       THEN /\ issues' = issues \o MagicIssues(path, lines, i)
            /\ i' = i + 1
            /\ UNCHANGED epc
       ELSE /\ epc' = "redundant"
            /\ i' = 1
            /\ UNCHANGED issues
    /\ UNCHANGED <<files, fileIdx, idx, spans, mainVars>>

\* lines 478-480: one iteration of the rule-21 loop, or its end
RedundantPass ==
    /\ epc = "redundant"
    /\ IF i <= Len(lines)
       THEN /\ issues' = issues \o RedundantIssues(path, lines, i)
            /\ i' = i + 1
            /\ UNCHANGED epc
       ELSE /\ epc' = "globals"
            /\ i' = 0
            /\ UNCHANGED issues
    /\ UNCHANGED <<files, fileIdx, idx, spans, mainVars>>

(***************************************************************************)
(* The global-variable scan (lines 486-626).  It reuses the local i of the *)
(* loops before it; the nested loop of lines 565-626 reuses it again.      *)
(***************************************************************************)
GlobalScanLimit == 300

\* lines 486-490 (and 554-558): 0-based index of the first line that matches
\* func_def_re, -1 for None
first_func_line(ls) ==
    LET defs == {n \in 0..(Len(ls) - 1) : func_def_re(Strip(At(ls, n))).ok}
    IN  IF defs = {} THEN -1 ELSE Min(defs)

\* lines 493-494 (and 561-562)
search_region(ls) ==
    SubSeq(ls, 1, IF first_func_line(ls) # -1 THEN first_func_line(ls)
                  ELSE Min({Len(ls), GlobalScanLimit}))

\* lines 501 and 568
GlobalLineSkipped(line) ==
    \/ StartsWith(Strip(line), "#")
    \/ Match(Cat(<<Bos, Ws0, Lit("//")>>), line)
    \/ Match(Cat(<<Bos, Ws0, Lit("/*")>>), line)

\* lines 506-516 (and 573-583): the value of j and of found_semicolon after
\* the loop that collects the block starting at index i0
BlockStop(region, i0) ==
    LET semis == {n \in i0..(Len(region) - 1) : Contains(At(region, n), ";")}
    IN  IF semis = {} THEN [j |-> Len(region), found_semicolon |-> FALSE]
        ELSE [j |-> Min(semis) + 1, found_semicolon |-> TRUE]

\* . under re.S
DotAll == NotIn({})

\* lines 523-531 (and 589-592): tok of the block starting at index i0
BlockTok(region, i0) ==
    LET raw_block   == JoinSlice(region, i0, BlockStop(region, i0).j)
        no_comments == SubAll(Cat(<<Lit("/*"), Star(DotAll), Lit("*/")>>), "", raw_block, TRUE, 1)
    IN  Strip(SubAll(line_comment_re, "", no_comments, FALSE, 1))

\* ^\s*typedef\b and ^\s*(struct|enum|union)\b[^{;]*;\s*$
typedef_re == Cat(<<Bos, Ws0, Lit("typedef"), WordB>>)
type_decl_re ==
    Cat(<<Bos, Ws0, Alt(<<Lit("struct"), Lit("enum"), Lit("union")>>), WordB,
          Star(NotIn({"{", ";"})), Lit(";"), Ws0, Eos>>)

\* lines 533-548: the tests of the outer loop that end its iteration
OuterBlockSkipped(tok) ==
    \/ Match(typedef_re, tok)
    \/ Match(type_decl_re, tok)
    \/ (Contains(tok, "(") /\ Contains(tok, ")"))
    \/ tok = "" \/ tok = ";"

\* lines 595-609: the tests of the nested loop that end its iteration
InnerBlockSkipped(tok) ==
    \/ Match(typedef_re, tok)
    \/ Match(type_decl_re, tok)
    \/ (Contains(tok, "(") /\ Contains(tok, ")"))
    \/ Match(Cat(<<Bos, Ws0, Lit("extern"), WordB>>), tok)
    \/ Match(Cat(<<Bos, Ws0, Lit("static"), WordB>>), tok)

\* lines 612-617, as written in the source (re.S):
\* ^\s*(?:const|volatile|unsigned|signed|register)?\s*
\* (?:struct|enum|union|[A-Za-z_][A-Za-z0-9_\s\*]+?)\s+([A-Za-z_][A-Za-z0-9_]*)
\* \s*(?:$$.*$$|\=.+)?\s*;\s*$
var_match_re ==
    Cat(<<Bos, Ws0,
          Opt(Alt(<<Lit("const"), Lit("volatile"), Lit("unsigned"), Lit("signed"),
                    Lit("register")>>)), Ws0,
          Alt(<<Lit("struct"), Lit("enum"), Lit("union"),
                Cat(<<In(IdStartCh), Plus(In(WordCh \cup SpaceCh \cup {"*"}))>>)>>),
          Ws1, IdentRe, Ws0,
          Opt(Alt(<<Cat(<<Eos, Eos, Star(DotAll), Eos, Eos>>),
                    Cat(<<Lit("="), Plus(DotAll)>>)>>)),
          Ws0, Lit(";"), Ws0, Eos>>)

\* lines 566-618: var_match is not None in the iteration of the nested loop
\* that starts at index i0
GlobalVarMatched(region, i0) ==
    /\ i0 < Len(region)
    /\ ~GlobalLineSkipped(At(region, i0))
    /\ BlockStop(region, i0).found_semicolon
    /\ ~InnerBlockSkipped(BlockTok(region, i0))
    /\ Search(var_match_re, BlockTok(region, i0))

\* lines 498-564: one iteration of the outer loop, which either moves i on or
\* enters the nested loop with i = 0 (line 564); when the loop ends, the next
\* file or "return issues" (line 629)
GlobalScan ==
    /\ epc = "globals"
    /\ \E region \in {search_region(lines)} :
           IF i >= Len(region)
           THEN IF fileIdx < Len(files)
                THEN /\ fileIdx' = fileIdx + 1
                     /\ epc' = "lines"
                     /\ i' = 1
                ELSE /\ epc' = "returned"
                     /\ UNCHANGED <<fileIdx, i>>
           ELSE IF GlobalLineSkipped(At(region, i))
           THEN /\ i' = i + 1
                /\ UNCHANGED <<fileIdx, epc>>
           ELSE IF \/ ~BlockStop(region, i).found_semicolon
                   \/ \E tok \in {BlockTok(region, i)} : OuterBlockSkipped(tok)
           THEN /\ i' = BlockStop(region, i).j
                /\ UNCHANGED <<fileIdx, epc>>
           ELSE /\ i' = 0
                /\ epc' = "globals_inner"
                /\ UNCHANGED fileIdx
    /\ UNCHANGED <<files, idx, issues, spans, mainVars>>

\* GlobalInner without the i += 1 of line 569: a skipped line is met again
GlobalInner_no_step ==
    /\ epc = "globals_inner"
    /\ \E region \in {search_region(lines)} :
           IF i >= Len(region)
           THEN /\ epc' = "globals"
                /\ UNCHANGED i
           ELSE IF GlobalLineSkipped(At(region, i))
           THEN UNCHANGED <<i, epc>>
           ELSE /\ i' = BlockStop(region, i).j
                /\ UNCHANGED epc
    /\ UNCHANGED <<files, fileIdx, idx, issues, spans, mainVars>>

\* lines 565-626: one iteration of the nested loop; the append of rule 27 is
\* commented out (lines 620-625), so every branch only moves i.  When the
\* loop ends control is back at the test of the outer loop.
GlobalInner ==
    /\ epc = "globals_inner"
    /\ \E region \in {search_region(lines)} :
           IF i >= Len(region)
           THEN /\ epc' = "globals"
                /\ UNCHANGED i
           ELSE IF GlobalLineSkipped(At(region, i))
           THEN /\ i' = i + 1
                /\ UNCHANGED epc
           ELSE /\ i' = BlockStop(region, i).j
                /\ UNCHANGED epc
    /\ UNCHANGED <<files, fileIdx, idx, issues, spans, mainVars>>

NextEngine == LinePass \/ SpanPass \/ MagicPass \/ RedundantPass \/ GlobalScan \/ GlobalInner

(***************************************************************************)
(* main (lines 670-780) and the GitLab helpers it calls.  What GitLab      *)
(* answers is an input of the step that asks: a response is                *)
(* [error, ...] with error "none", "http" (requests.HTTPError, which the   *)
(* helpers catch) or "connection" (any other exception of requests, which  *)
(* only post_*, approve_mr and the per-file fetch catch).                  *)
(***************************************************************************)
\* d.get(key, default)
DictGet(d, key, default) == IF key \in DOMAIN d THEN d[key] ELSE default

\* s.endswith(suf)
EndsWith(s, suf) == Len(s) >= Len(suf) /\ SubSeq(s, Len(s) - Len(suf) + 1, Len(s)) = suf

ProjectIssue(tag) == Issue("None", 0, 0, tag, "", 0)

\* line 693: (?i)\blab\s*\d+\b
title_re == Cat(<<WordB, Lit("lab"), Ws0, Plus(In(DigitCh)), WordB>>)

\* lines 692-694
TitleIssues(m) ==
    IF ~Search(title_re, ToLower(m.title)) THEN <<ProjectIssue("title")>> ELSE <<>>

\* lines 697-699
ConflictIssues(m) ==
    IF DictGet(m, "has_conflicts", FALSE) THEN <<ProjectIssue("conflicts")>> ELSE <<>>

\* lines 702-710: the loop body ends with an unconditional break, so only the
\* first discussion is looked at
DiscussionIssues(m) ==
    LET discussions == DictGet(m, "discussions", <<>>)
    IN  IF discussions # <<>> /\ ~DictGet(discussions[1], "resolved", TRUE)
        THEN <<ProjectIssue("discussions")>> ELSE <<>>

\* mr_has_successful_pipeline with the sort of line 121 ascending (reverse=True
\* left out): the oldest pipeline decides
mr_has_successful_pipeline_oldest(resp) ==
    IF resp.error = "http" \/ resp.pipelines = <<>> THEN FALSE
    ELSE LET ids    == {resp.pipelines[k].id : k \in DOMAIN resp.pipelines}
             oldest == CHOOSE q \in {resp.pipelines[k] : k \in DOMAIN resp.pipelines} :
                           q.id = Min(ids)
         IN  oldest.status = "success"

\* lines 114-128 on a response without a "connection" error
mr_has_successful_pipeline(resp) ==
    IF resp.error = "http" \/ resp.pipelines = <<>> THEN FALSE
    ELSE LET ids    == {resp.pipelines[k].id : k \in DOMAIN resp.pipelines}
             latest == CHOOSE q \in {resp.pipelines[k] : k \in DOMAIN resp.pipelines} :
                           q.id = Max(ids)
         IN  latest.status = "success"

\* lines 131-148 on a response without a "connection" error
mr_has_unresolved_discussions(resp) ==
    IF resp.error = "http" THEN TRUE
    ELSE \E k \in DOMAIN resp.discussions :
            LET d == resp.discussions[k]
            IN  \/ DictGet(d, "resolvable", FALSE) /\ ~DictGet(d, "resolved", FALSE)
                \/ \E n \in DOMAIN DictGet(d, "notes", <<>>) :
                      /\ DictGet(d.notes[n], "resolvable", FALSE)
                      /\ ~DictGet(d.notes[n], "resolved", FALSE)

\* lines 160-179 on a response without a "connection" error: the files fetched,
\* in the order of the changes (the paths of one response are distinct)
fetch_changed_c_files(resp) ==
    IF resp.error = "http" THEN <<>>
    ELSE ConcatRange(LAMBDA k :
            LET ch == resp.changes[k]
            IN  IF ch.new_path = "" THEN <<>>
                ELSE IF ~(EndsWith(ch.new_path, ".c") \/ EndsWith(ch.new_path, ".h")) THEN <<>>
                ELSE IF ch.fetch = "200" THEN <<[path |-> ch.new_path, lines |-> ch.lines]>>
                ELSE <<>>,
            1, Len(resp.changes))

(***************************************************************************)
(* What GitLab may answer (bounded)                                        *)
(***************************************************************************)
MaxMRs == 2

Titles == {"Lab 1: arrays", "fix bug"}
DiscussionLists ==
    { <<>>, <<[id |-> 1, resolved |-> TRUE]>>, <<[id |-> 1, resolved |-> FALSE]>>,
      <<[id |-> 1, resolved |-> TRUE], [id |-> 2, resolved |-> FALSE]>> }
MergeRequests ==
    {[title |-> t, has_conflicts |-> c, discussions |-> d] :
        t \in Titles, c \in BOOLEAN, d \in DiscussionLists}

PipelineResponses ==
    { [error |-> "http", pipelines |-> <<>>],
      [error |-> "connection", pipelines |-> <<>>],
      [error |-> "none", pipelines |-> <<>>],
      [error |-> "none", pipelines |-> <<[id |-> 7, status |-> "success"]>>],
      [error |-> "none", pipelines |-> <<[id |-> 7, status |-> "success"],
                                         [id |-> 9, status |-> "failed"]>>],
      [error |-> "none", pipelines |-> <<[id |-> 9, status |-> "success"],
                                         [id |-> 7, status |-> "failed"]>>] }

DiscussionResponses ==
    { [error |-> "http", discussions |-> <<>>],
      [error |-> "none", discussions |-> <<>>],
      [error |-> "none", discussions |-> <<[resolvable |-> TRUE, resolved |-> TRUE]>>],
      [error |-> "none", discussions |-> <<[resolvable |-> TRUE, resolved |-> FALSE]>>],
      [error |-> "none", discussions |->
          <<[notes |-> <<[resolvable |-> TRUE, resolved |-> FALSE]>>]>>] }

CleanFile == <<"int main(void) {", "return 0;", "}">>
DirtyFile == <<"int x = 42;">>
OpenAllocFile == <<"void f(void) {", "p = malloc(n);">>

Change(new_path, fetch, text) == [new_path |-> new_path, fetch |-> fetch, lines |-> text]
ChangeResponses ==
    { [error |-> "http", changes |-> <<>>],
      [error |-> "none", changes |-> <<>>],
      [error |-> "none", changes |-> <<Change("README.md", "200", DirtyFile)>>],
      [error |-> "none", changes |-> <<Change("a.c", "200", CleanFile)>>],
      [error |-> "none", changes |-> <<Change("a.c", "200", DirtyFile)>>],
      [error |-> "none", changes |-> <<Change("a.c", "404", <<>>)>>],
      [error |-> "none", changes |-> <<Change("a.c", "200", CleanFile),
                                       Change("b.h", "exception", <<>>)>>],
      [error |-> "none", changes |-> <<Change("a.c", "200", CleanFile),
                                       Change("b.h", "200", DirtyFile)>>],
      [error |-> "none", changes |-> <<Change("a.c", "200", OpenAllocFile)>>] }

(***************************************************************************)
(* main, one call of a helper per step                                     *)
(***************************************************************************)
NoMR == [title |-> "", has_conflicts |-> FALSE, discussions |-> <<>>]
NoPipelines == [error |-> "none", pipelines |-> <<>>]
NoDetails == [error |-> "none", changes |-> <<>>]

\* lines 715-718: where main goes after the pipeline check ("continue" when not ok)
AfterPipeline(ok) == IF ok THEN "discussions" ELSE "mr_next"

\* lines 682-710: the for loop takes the next merge request
StartMR ==
    /\ pc = "mr_next"
    /\ mr_count < MaxMRs
    /\ \E m \in MergeRequests :
          /\ mr' = m
          /\ title_issues' = TitleIssues(m)
          /\ conflict_issues' = ConflictIssues(m)
          /\ discussion_issues' = DiscussionIssues(m)
    /\ mr_count' = mr_count + 1
    /\ pc' = "pipeline"
    /\ pipelines' = NoPipelines
    /\ details' = NoDetails
    /\ ok_pipeline' = FALSE /\ unresolved' = FALSE /\ fetched' = FALSE
    /\ mr_issues' = <<>> /\ approval' = "not_called" /\ summary' = "none"
    /\ inline_posted' = 0
    /\ UNCHANGED <<engineVars, APPROVE_ON_PASS>>

\* line 682: mrs is exhausted
EndOfMRs ==
    /\ pc = "mr_next"
    /\ pc' = "done"
    /\ UNCHANGED <<engineVars, APPROVE_ON_PASS, mr_count, mrVars>>

\* lines 714-718
CheckPipeline ==
    /\ pc = "pipeline"
    /\ \E resp \in PipelineResponses :
          /\ pipelines' = resp
          /\ IF resp.error = "connection"
             THEN pc' = "aborted" /\ UNCHANGED ok_pipeline
             ELSE /\ ok_pipeline' = mr_has_successful_pipeline(resp)
                  /\ pc' = AfterPipeline(ok_pipeline')
    /\ UNCHANGED <<engineVars, APPROVE_ON_PASS, mr_count, mr, title_issues, conflict_issues,
                   discussion_issues, unresolved, details, fetched, mr_issues, approval,
                   summary, inline_posted>>

\* lines 721-725: the continue of the unresolved case is commented out
CheckDiscussions ==
    /\ pc = "discussions"
    /\ \E resp \in DiscussionResponses : unresolved' = mr_has_unresolved_discussions(resp)
    /\ pc' = "fetch"
    /\ UNCHANGED <<engineVars, APPROVE_ON_PASS, mr_count, mr, title_issues, conflict_issues,
                   discussion_issues, pipelines, ok_pipeline, details, fetched, mr_issues,
                   approval, summary, inline_posted>>

\* lines 728-735: fetch the files and, when there are any, call run_checks_on_files
FetchFiles ==
    /\ pc = "fetch"
    /\ \E resp \in ChangeResponses :
          /\ details' = resp
          /\ files' = fetch_changed_c_files(resp)
    /\ fetched' = TRUE
    /\ mr_issues' = <<>>
    /\ issues' = <<>> /\ spans' = <<>> /\ i' = 1 /\ idx' = 0 /\ fileIdx' = 1
    /\ IF files' # <<>> THEN pc' = "checks" /\ epc' = "lines"
                        ELSE pc' = "extend" /\ epc' = "off"
    /\ UNCHANGED <<APPROVE_ON_PASS, mr_count, mr, title_issues, conflict_issues,
                   discussion_issues, pipelines, ok_pipeline, unresolved, approval,
                   summary, inline_posted>>

\* line 735: run_checks_on_files returned, or raised (nothing in main catches it:
\* the handler of line 788 ends the process)
ChecksEnd ==
    /\ pc = "checks"
    /\ epc \in {"returned", "raised"}
    /\ IF epc = "returned" THEN pc' = "extend" /\ mr_issues' = issues
                           ELSE pc' = "aborted" /\ UNCHANGED mr_issues
    /\ epc' = "off"
    /\ UNCHANGED <<files, fileIdx, i, idx, issues, spans, APPROVE_ON_PASS, mr_count, mr,
                   title_issues, conflict_issues, discussion_issues, pipelines, ok_pipeline,
                   unresolved, details, fetched, approval, summary, inline_posted>>

\* the issues an inline comment is tried for (line 768)
InlineCandidates(list) == {k \in DOMAIN list : list[k].file # "None" /\ list[k].line # 0}

\* lines 737-780: extend the issues, then approve and post the pass summary, or
\* post the inline comments and the fail summary
Decide ==
    /\ pc = "extend"
    /\ mr_issues' = mr_issues \o title_issues \o conflict_issues \o discussion_issues
    /\ IF mr_issues' = <<>>
       THEN /\ IF APPROVE_ON_PASS THEN approval' \in {"ok", "failed"}
                                  ELSE UNCHANGED approval
            /\ summary' = "pass"
            /\ UNCHANGED inline_posted
       ELSE /\ inline_posted' \in 0..Cardinality(InlineCandidates(mr_issues'))
            /\ summary' = "fail"
            /\ UNCHANGED approval
    /\ pc' = "mr_next"
    /\ UNCHANGED <<engineVars, APPROVE_ON_PASS, mr_count, mr, title_issues, conflict_issues,
                   discussion_issues, pipelines, ok_pipeline, unresolved, details, fetched>>

NextMain == StartMR \/ EndOfMRs \/ CheckPipeline \/ CheckDiscussions \/ FetchFiles
            \/ ChecksEnd \/ Decide

Next == NextMain \/ NextEngine

\* the state after main's setup (lines 671-680), before the first merge request
Init ==
    /\ pc = "mr_next"
    /\ APPROVE_ON_PASS \in BOOLEAN
    /\ mr_count = 0
    /\ mr = NoMR
    /\ title_issues = <<>> /\ conflict_issues = <<>> /\ discussion_issues = <<>>
    /\ pipelines = NoPipelines
    /\ details = NoDetails
    /\ ok_pipeline = FALSE /\ unresolved = FALSE /\ fetched = FALSE
    /\ mr_issues = <<>> /\ approval = "not_called" /\ summary = "none"
    /\ inline_posted = 0
    /\ files = <<>> /\ fileIdx = 1 /\ epc = "off" /\ i = 1 /\ idx = 0
    /\ issues = <<>> /\ spans = <<>>

Spec == Init /\ [][Next]_vars

(***************************************************************************)
(* run_checks_on_files called alone on a file map: the state at its entry  *)
(***************************************************************************)
EngineInit(maps) ==
    /\ files \in maps
    /\ fileIdx = 1 /\ i = 1 /\ idx = 0 /\ issues = <<>> /\ spans = <<>>
    /\ epc = IF files = <<>> THEN "returned" ELSE "lines"
    /\ pc = "standalone"
    /\ APPROVE_ON_PASS = TRUE
    /\ mr_count = 0
    /\ mr = NoMR
    /\ title_issues = <<>> /\ conflict_issues = <<>> /\ discussion_issues = <<>>
    /\ pipelines = NoPipelines
    /\ details = NoDetails
    /\ ok_pipeline = FALSE /\ unresolved = FALSE /\ fetched = FALSE
    /\ mr_issues = <<>> /\ approval = "not_called" /\ summary = "none"
    /\ inline_posted = 0

\* the maps of one file "a.c" whose lines are at most n lines of corpus
OneFileMaps(corpus, n) ==
    {<<[path |-> "a.c", lines |-> l]>> : l \in UNION {[1..k -> corpus] : k \in 0..n}}

\* the issues of one rule at one line of the current call
IssuesOf(rule, line) == {k \in DOMAIN issues : issues[k].rule = rule /\ issues[k].line = line}


(***************************************************************************)
(* Specifications of run_checks_on_files on bounded inputs                 *)
(***************************************************************************)
MaxLines == 3

\* allocation, scanf, exit and goto lines in functions that may stay open, and
\* a file-scope declaration
AllocCorpus ==
    {"void f(void) {", "p = malloc(n);", "if (!p) return;", "}", "scanf(x);", "exit(1); goto out;",
     "int n;"}
InitAlloc == EngineInit(OneFileMaps(AllocCorpus, MaxLines))
SpecAlloc == InitAlloc /\ [][NextEngine]_vars

MaxReturnLines == 5

\* one-parameter functions with return lines and a nested block
ReturnCorpus == {"int f(int a) {", "return a;", "}", "if (a) {"}
InitReturns == EngineInit(OneFileMaps(ReturnCorpus, MaxReturnLines))
SpecReturns == InitReturns /\ [][NextEngine]_vars

MaxBody == 30

Rep(x, n) == [k \in 1..n |-> x]

\* a file holding function f with k plain statements in its body, optionally
\* after a declaration, with a nested block, without its closing brace, or
\* followed by a second function
LenFile(pre, inner, k, closed, tail) ==
       (IF pre THEN <<"int n;">> ELSE <<>>)
    \o <<"void f(void) {">>
    \o (IF inner THEN <<"if (n) {", "}">> ELSE <<>>)
    \o Rep("x();", k)
    \o (IF closed THEN <<"}">> ELSE <<>>)
    \o (IF tail THEN <<"int g(void) {", "}">> ELSE <<>>)
LenMaps ==
    {<<[path |-> "a.c", lines |-> LenFile(pre, inner, k, closed, tail)]>> :
        pre \in BOOLEAN, inner \in BOOLEAN, k \in 0..MaxBody,
        closed \in BOOLEAN, tail \in BOOLEAN}
InitLen == EngineInit(LenMaps)
SpecLen == InitLen /\ [][NextEngine]_vars

\* lines taking the address of an array element, in an expression, as a call
\* argument, before a multiplication and inside a comment
AmpCorpus ==
    {"int x = arr[5] + &y[2];", "foo(&y[2])", "p = & a [i];", "q = &b[1]*k;", "x = 1; // &c[3]"}
InitAmp == EngineInit(OneFileMaps(AmpCorpus, MaxLines))
SpecAmp == InitAmp /\ [][NextEngine]_vars

\* declarations of well and badly named variables and functions
NameCorpus ==
    {"unsigned int my_Var2;", "int _foo;", "int goodName;", "long Bad_Name(int a) {", "}"}
InitNames == EngineInit(OneFileMaps(NameCorpus, MaxLines))
SpecNames == InitNames /\ [][NextEngine]_vars

ScanfLines == 7

ScanfCalls  == {"scanf(x);", "if (scanf(x) == 1) {"}
ScanfGuards == {"m = 1;", "diff();", "a < b;", "return;"}

\* a file of ScanfLines lines: function f defined at line d, a scanf call at
\* line c, guard line g at line gp (none when gp = 0), plain calls elsewhere,
\* and optionally the closing brace right after the call
ScanfFile(d, c, call, gp, g, closed) ==
    LET base == [n \in 1..ScanfLines |->
                    IF n = d THEN "void f(void) {"
                    ELSE IF n = c THEN call
                    ELSE IF n = gp THEN g
                    ELSE "x();"]
    IN  IF closed
        THEN SubSeq(base, 1, c) \o <<"}">> \o SubSeq(base, c + 1, ScanfLines)
        ELSE base
ScanfMaps ==
    {<<[path |-> "a.c", lines |-> ScanfFile(dc[1], dc[2], call, gp, g, closed)]>> :
        dc \in {x \in (1..ScanfLines) \X (1..ScanfLines) : x[1] < x[2]},
        call \in ScanfCalls, gp \in 0..ScanfLines, g \in ScanfGuards, closed \in BOOLEAN}
InitScanf == EngineInit(ScanfMaps)
SpecScanf == InitScanf /\ [][NextEngine]_vars

\* lines with literals in statements, directives, an enum and next to the
\* word "undefined"
MagicCorpus ==
    {"x = 42;", "#define N 42", "#if N == 42", "int undefined = 42;", "enum { A = 7 };",
     "a[0] = -1 + 1;", "y = 3 + 3.5;", "z = n-1;"}
InitMagic == EngineInit(OneFileMaps(MagicCorpus, MaxLines))
SpecMagic == InitMagic /\ [][NextEngine]_vars

\* functions with used and unused scalar and array parameters
ParamCorpus ==
    {"int f(int a, int b) {", "return a;", "}", "int g(int a[10]) {", "return a[0] + b;"}
InitParams == EngineInit(OneFileMaps(ParamCorpus, MaxLines))
SpecParams == InitParams /\ [][NextEngine]_vars

MaxDisabledLines == 4

\* a file-scope declaration, and a function with an allocation that is or is
\* not checked
DisabledCorpus == {"int n;", "void f(void) {", "p = malloc(n);", "if (!p) return;", "}"}
InitDisabled == EngineInit(OneFileMaps(DisabledCorpus, MaxDisabledLines))
SpecDisabled == InitDisabled /\ [][NextEngine]_vars

\* statements whose comments and string literals hold a number, an exit call,
\* a goto and a scanf call
CommentCorpus ==
    {"void f(void) {", "}", "x = 1; // was 42", "puts(\"exit(1)\");", "x = 0; /* goto end */",
     "x = 7;", "y = 0; // scanf(z)"}
InitComments == EngineInit(OneFileMaps(CommentCorpus, MaxLines))
SpecComments == InitComments /\ [][NextEngine]_vars

MaxFiles == 2
MaxFileLines == 2

\* maps of up to MaxFiles files with distinct paths, in every order, each of
\* at most MaxFileLines lines
FileCorpus == {"void f(void) {", "goto out;", "p = malloc(n);"}
FilePaths == <<"a.c", "b.c", "c.c">>
FileLists == UNION {[1..k -> FileCorpus] : k \in 0..MaxFileLines}
FileMaps ==
    UNION {{m \in [1..n -> [path : {FilePaths[k] : k \in 1..n}, lines : FileLists]] :
               \A x, y \in 1..n : x # y => m[x].path # m[y].path} : n \in 1..MaxFiles}
InitFiles == EngineInit(FileMaps)
SpecFiles == InitFiles /\ [][NextEngine]_vars

(***************************************************************************)
(* Claims                                                                  *)
(***************************************************************************)

\* C1: run_checks_on_files never raises, whatever the lines of the files are
\* (unbalanced braces, allocations, scanf, exit, goto): it always returns.
C1_NeverRaises == epc # "raised"

\* the latest pipeline (greatest id) of the answer is successful
LatestPipelineSucceeded ==
    /\ pipelines.error = "none"
    /\ \E k \in DOMAIN pipelines.pipelines :
          /\ pipelines.pipelines[k].status = "success"
          /\ \A n \in DOMAIN pipelines.pipelines :
                pipelines.pipelines[n].id <= pipelines.pipelines[k].id

\* C2: approve_mr is called for a merge request only when its latest pipeline is
\* successful, APPROVE_ON_PASS is set and its combined issue list (engine
\* findings, title, conflict and discussion issues) is empty.
C2_ApproveOnlyCleanPassing ==
    approval # "not_called" =>
        /\ LatestPipelineSucceeded
        /\ APPROVE_ON_PASS
        /\ mr_issues = <<>>
        /\ issues = <<>> /\ title_issues = <<>> /\ conflict_issues = <<>>
        /\ discussion_issues = <<>>

\* a second merge request whose files were checked is approved
C2_Witness == approval = "ok" /\ files # <<>> /\ mr_count = 2 /\ pc = "mr_next"

\* C3: a merge request with unresolved discussions (or whose discussions could
\* not be fetched) is skipped: no files fetched, nothing posted, never approved.
C3_UnresolvedSkipped ==
    unresolved => ~fetched /\ summary = "none" /\ approval = "not_called"


\* braces opened minus braces closed on lines a..b (1-based) of ls
RECURSIVE BraceSum(_, _, _)
BraceSum(ls, a, b) ==
    IF a > b THEN 0
    ELSE CountCh(ls[b], "{") - CountCh(ls[b], "}") + BraceSum(ls, a, b - 1)

\* the lines from d on at which the brace opened at or after line d is matched
ClosingLines(ls, d) ==
    {j \in d..Len(ls) : /\ \E n \in d..j : CountCh(ls[n], "{") > 0
                        /\ BraceSum(ls, d, j) = 0}

\* the line (1-based) of the matching closing brace of the function defined at
\* line d, 0 when the braces never balance
ClosingLine(ls, d) ==
    IF ClosingLines(ls, d) = {} THEN 0 ELSE Min(ClosingLines(ls, d))

\* the 1-based lines where a function definition is detected
DefinitionLines(ls) == {d \in 1..Len(ls) : func_def_re(Strip(ls[d])).ok}

\* return statements between the braces of the function defined at line d
OwnReturns(ls, d) ==
    Cardinality({j \in d..ClosingLine(ls, d) : Search(return_re, ls[j])})

\* C4: for every detected function definition with a matching closing brace,
\* rule 10 fires exactly once at the definition line with the function's own
\* return count when its body holds more than 2 return statements, and does
\* not fire when it holds 2 or fewer.
C4_ReturnsOfOwnBody ==
    epc = "returned" =>
        \A d \in DefinitionLines(lines) :
            ClosingLine(lines, d) # 0 =>
                IF OwnReturns(lines, d) > MaxReturns
                THEN /\ Cardinality(IssuesOf(10, d)) = 1
                     /\ \A k \in IssuesOf(10, d) : issues[k].num = OwnReturns(lines, d)
                ELSE IssuesOf(10, d) = {}


\* the span length of the function defined at line d: definition line through
\* the line of the closing brace
SpanLength(ls, d) == ClosingLine(ls, d) - d + 1

\* C5: for a detected function whose closing brace is in the file, rule 4 fires
\* exactly once when the span length (end line - start line + 1) is 31 or more
\* and does not fire when it is 30 or less.
C5_LengthRule ==
    epc = "returned" =>
        \A d \in DefinitionLines(lines) :
            ClosingLine(lines, d) # 0 =>
                Cardinality(IssuesOf(4, d)) =
                    IF SpanLength(lines, d) >= MaxFuncLen + 1 THEN 1 ELSE 0

\* a function of exactly 31 lines was reported once
C5_Witness ==
    /\ epc = "returned"
    /\ \E d \in DefinitionLines(lines) :
          /\ ClosingLine(lines, d) # 0
          /\ SpanLength(lines, d) = MaxFuncLen + 1
          /\ Cardinality(IssuesOf(4, d)) = 1


\* the address-of-array-element pattern  & identifier [ index ]
amp_element == Cat(<<Lit("&"), Ws0, IdentRe, Ws0, Lit("["), Plus(NotIn({"]"})), Lit("]")>>)

\* the positions just after an occurrence of the pattern in ln
AmpElementEnds(ln) == UNION {Ends(amp_element, ln, p) : p \in 1..Len(ln)}

\* some occurrence is not immediately followed by ")" or "*"
HasBareAmpElement(ln) ==
    \E e \in AmpElementEnds(ln) : e > Len(ln) \/ Ch(ln, e) \notin {")", "*"}

\* C6: a line with an address-of-array-element pattern outside strings and
\* comments that is not immediately followed by ")" or "*" has a rule-0 finding
\* at that line; a line where the pattern is followed by ")" has none.
C6_AmpElementReported ==
    epc = "returned" =>
        \A l \in 1..Len(lines) :
            LET ln == StripForAmp(lines[l])
            IN  /\ HasBareAmpElement(ln) => IssuesOf(0, l) # {}
                /\ AmpElementEnds(ln) # {} /\ ~HasBareAmpElement(ln) => IssuesOf(0, l) = {}


TypeKeywordSet == {type_keywords[k] : k \in DOMAIN type_keywords}

\* the identifiers a line declares: the name of the function it defines and
\* every identifier that follows a type keyword and is not itself one
DeclaredNames(line) ==
    LET m      == func_def_re(Strip(line))
        after  == UNION {Ends(var_decl_head, line, p) : p \in 1..Len(line)}
        idents == {Sub(line, a, Max(Ends(IdentRe, line, a)) - 1) :
                      a \in {x \in after : Ends(IdentRe, line, x) # {}}}
    IN  (IF m.ok THEN {m.name} ELSE {}) \cup (idents \ TypeKeywordSet)

\* C7: rule 2 does not fire for a declared function or variable identifier that
\* matches one of the three naming patterns and fires for every declared
\* identifier that matches none of them.
C7_NamingRule ==
    epc = "returned" =>
        \A l \in 1..Len(lines) : \A name \in DeclaredNames(lines[l]) :
            (MatchedStyle(name) = 0) <=>
                (\E k \in IssuesOf(2, l) : issues[k].name = name)


\* the 1-based lines of a recorded span
SpanLines(sp) == (sp.start_idx + 1)..Min({sp.end_idx + 1, Len(lines)})

\* line l holds a scanf call inside a recorded function span
ScanfInSpan(sp, l) == l \in SpanLines(sp) /\ Search(scanf_re, lines[l])

\* an "if" or "return" token, a comparison operator or an assignment on a line
HasGuardToken(line) ==
    \/ Search(Cat(<<WordB, Lit("if"), WordB>>), line)
    \/ Search(return_re, line)
    \/ \E op \in {"==", "!=", "<", ">", "="} : Contains(line, op)

\* C8 as stated: a scanf call inside a function span fires rule 8 at its line
\* exactly when no if, comparison operator, return or assignment token occurs
\* in the window of 3 lines before through 3 lines after the call.
C8_WindowOfTokens ==
    epc = "returned" =>
        \A k \in DOMAIN spans : \A l \in 1..Len(lines) :
            ScanfInSpan(spans[k], l) =>
                (Cardinality(IssuesOf(8, l)) = 1 <=>
                    \A j \in Max({1, l - ScanfWindow})..Min({Len(lines), l + ScanfWindow}) :
                        ~HasGuardToken(lines[j]))

\* the text "if", "return" or "=" somewhere on a line
HasGuardText(line) == \E g \in {"if", "return", "="} : Contains(line, g)

\* the lines the rule looks at for the call at line l of span sp: from 3 lines
\* before the call, but not before the definition line, through 3 lines after
\* it, up to the end of the file
GuardWindow(sp, l) ==
    Max({sp.start_idx + 1, l - ScanfWindow})..Min({Len(lines), l + ScanfWindow})

\* C8 amended: a scanf call inside a function span fires rule 8 at its line
\* exactly once when none of the texts "if", "return", "=" (hence "==", "!=")
\* occurs on the lines from max(definition line, call line - 3) through call
\* line + 3, and not otherwise; "if (scanf(...) == 1) {" never fires.
C8_WindowOfTexts ==
    epc = "returned" =>
        \A l \in 1..Len(lines) :
            /\ Cardinality(IssuesOf(8, l)) =
                  IF \E k \in DOMAIN spans :
                        /\ ScanfInSpan(spans[k], l)
                        /\ \A j \in GuardWindow(spans[k], l) : ~HasGuardText(lines[j])
                  THEN 1 ELSE 0
            /\ lines[l] = "if (scanf(x) == 1) {" => IssuesOf(8, l) = {}

\* rule 8 fired for a call that has an assignment less than 3 lines before it,
\* above the definition line
C8_Witness ==
    /\ epc = "returned"
    /\ \E k \in DOMAIN spans : \E l \in 1..Len(lines) :
          /\ ScanfInSpan(spans[k], l)
          /\ Cardinality(IssuesOf(8, l)) = 1
          /\ \E j \in Max({1, l - ScanfWindow})..spans[k].start_idx : Contains(lines[j], "=")


\* the positions where a decimal literal starts on a line: a match of
\* number_literal_re that does not begin inside an earlier one
LiteralStarts(line) ==
    LET st == Starts(number_literal_re, line)
    IN  {p \in st : ~\E q \in st : q < p /\ p < Max(Ends(number_literal_re, line, q))}
LiteralAt(line, p) == Sub(line, p, Max(Ends(number_literal_re, line, p)) - 1)

\* the literal occurrences of a line that are not 0, 1 or -1
MagicStarts(line) ==
    {p \in LiteralStarts(line) : LiteralAt(line, p) \notin {"0", "1", "-1"}}

\* a #define line or a line with the enum keyword
DefineOrEnumLine(line) ==
    StartsWith(Strip(line), "#define") \/ Search(Cat(<<WordB, Lit("enum"), WordB>>), line)

MagicExemptLine(line) ==
    \/ StartsWith(Strip(line), "#")
    \/ Contains(line, "enum")
    \/ Contains(ToLower(line), "define")

BeforeBracket(part) ==
    LET br == {p \in 1..Len(part) : Ch(part, p) = "["}
    IN  IF br = {} THEN part ELSE Sub(part, 1, Min(br) - 1)

\* the names of the parameters declared by a parameter list
DeclaredParams(params) ==
    IF params = "" \/ params = "void" THEN {}
    ELSE LET parts == SplitOn(params, ",")
         IN  {RemoveChars(LastToken(Strip(BeforeBracket(parts[k]))), {"*"}) :
                  k \in DOMAIN parts} \ {""}

\* name occurs as a whole word between the braces of span sp, that is on the
\* lines after the definition line through the closing line
UsedInBody(sp, name) ==
    \E l \in (sp.start_idx + 2)..(sp.end_idx + 1) :
        Search(Cat(<<WordB, Lit(name), WordB>>), lines[l])

\* C10: rule 18 fires for a parameter of a detected function exactly when its
\* name never appears as a whole word in the function body; a parameter named
\* only in the parameter list is reported, a parameter used in the body
\* (array parameters included) is not.
C10_UnusedParams ==
    epc = "returned" =>
        \A k \in DOMAIN spans :
            spans[k].end_idx < Len(lines) =>
                /\ \A name \in DeclaredParams(spans[k].params) :
                      (\E n \in IssuesOf(18, spans[k].start_idx + 1) : issues[n].name = name)
                          <=> ~UsedInBody(spans[k], name)
                /\ \A n \in IssuesOf(18, spans[k].start_idx + 1) :
                      issues[n].name \in DeclaredParams(spans[k].params)


\* C11: no issue with rule id 15 or 27 is ever in the issue list of
\* run_checks_on_files, even when the rule-15 detector finds an allocation
\* left unchecked within the lookahead or the rule-27 detector matches a
\* file-scope declaration.
C11_DisabledRules == \A k \in DOMAIN issues : issues[k].rule \notin {15, 27}

\* the engine returned for a file whose first block is a declaration that the
\* rule-27 detector matched and whose function holds an unchecked allocation
C11_Witness ==
    /\ epc = "returned"
    /\ ~OuterBlockSkipped(BlockTok(search_region(lines), 0))
    /\ GlobalVarMatched(search_region(lines), 0)
    /\ \E k \in DOMAIN spans : \E n \in spans[k].start_idx..LastLine(lines, spans[k]) :
          AllocLine(lines, spans[k], n) = "unchecked"


\* the pattern of a rule is found in text t
RuleTextIn(rule, t) ==
    CASE rule = 3  -> \E k \in DOMAIN translit_tokens :
                          Search(Cat(<<WordB, Lit(translit_tokens[k]), WordB>>), ToLower(t))
      [] rule = 5  -> \E p \in Starts(number_literal_re, t) :
                          Sub(t, p, Max(Ends(number_literal_re, t, p)) - 1) \notin {"0", "1", "-1"}
      [] rule = 8  -> Search(scanf_re, t)
      [] rule = 25 -> Search(exit_re, t)
      [] rule = 26 -> Search(goto_re, t)
      [] OTHER     -> TRUE

\* C12: no detector reports a finding for text that occurs only inside a
\* comment or a string/character literal: an issue of rule 3, 5, 8, 25 or 26
\* at a line has its pattern in the comment- and literal-stripped form of
\* that line.
C12_StrippedTextOnly ==
    \A k \in DOMAIN issues :
        RuleTextIn(issues[k].rule, StripForAmp(lines[issues[k].line]))


\* the issue list of the merge request holds a project-level issue of a kind
HasProjectIssue(tag) ==
    \E k \in DOMAIN mr_issues :
        /\ mr_issues[k].tag = tag
        /\ mr_issues[k].file = "None" /\ mr_issues[k].line = 0 /\ mr_issues[k].rule = 0

\* C13: for each reviewed merge request, each project-level condition that
\* holds adds a rule-0 issue without file and line to its issue list: the
\* title lacks a "lab <number>" token, the conflict flag is set, or its
\* discussion list holds an unresolved discussion at any position.
C13_ProjectConditions ==
    summary # "none" =>
        /\ ~Search(title_re, ToLower(mr.title)) <=> HasProjectIssue("title")
        /\ mr.has_conflicts <=> HasProjectIssue("conflicts")
        /\ (\E d \in DOMAIN mr.discussions : ~mr.discussions[d].resolved)
               <=> HasProjectIssue("discussions")


\* the content of a changed .c or .h file of this merge request was not fetched
SomeFileNotFetched ==
    \E k \in DOMAIN details.changes :
        /\ EndsWith(details.changes[k].new_path, ".c") \/ EndsWith(details.changes[k].new_path, ".h")
        /\ details.changes[k].fetch # "200"

\* C14: when fetching a changed .c/.h file fails the file is left out of the
\* analysis and is not treated as having zero findings: a merge request is
\* not reported as violation-free, nor approved, while one of its changed
\* files was never analysed.
C14_NoPassOnUnfetchedFile ==
    SomeFileNotFetched => summary # "pass" /\ approval = "not_called"


\* what the span pass appends for file p with lines ls when it is analysed
\* alone, from scan position n on
RECURSIVE SpanIssuesAlone(_, _, _)
SpanIssuesAlone(p, ls, n) ==
    IF n >= Len(ls) THEN <<>>
    ELSE IF StartsWith(Strip(At(ls, n)), "#") \/ ~func_def_re(Strip(At(ls, n))).ok
    THEN SpanIssuesAlone(p, ls, n + 1)
    ELSE LET sp == SpanAt(p, ls, n)
         IN  ShapeIssues(p, sp) \o UnusedParamIssues(p, ls, sp) \o ScanfIssues(p, ls, sp)
             \o ExitGotoIssues(p, ls, sp) \o FloatCmpIssues(p, ls, sp)
             \o SpanIssuesAlone(p, ls, sp.end_idx + 1)

\* the analysis of file ls alone raises
RECURSIVE RaisesAlone(_, _)
RaisesAlone(ls, n) ==
    IF n >= Len(ls) THEN FALSE
    ELSE IF StartsWith(Strip(At(ls, n)), "#") \/ ~func_def_re(Strip(At(ls, n))).ok
    THEN RaisesAlone(ls, n + 1)
    ELSE AllocRaises(ls, SpanAt("", ls, n)) \/ RaisesAlone(ls, SpanAt("", ls, n).end_idx + 1)

\* the issues of a call on the one file f
IssuesAlone(f) ==
       ConcatRange(LAMBDA n : LineIssues(f.path, f.lines, n), 1, Len(f.lines))
    \o SpanIssuesAlone(f.path, f.lines, 0)
    \o ConcatRange(LAMBDA n : MagicIssues(f.path, f.lines, n), 1, Len(f.lines))
    \o ConcatRange(LAMBDA n : RedundantIssues(f.path, f.lines, n), 1, Len(f.lines))

\* C15: the analysis of a file depends only on that file's path and lines: the
\* issues a call over a whole map returns are the issues of the calls on each
\* file alone, concatenated (so equal as multisets in any file order), and
\* the call over the map raises only where the call on one file alone does.
C15_FilesIndependent ==
    /\ epc = "returned" =>
          issues = ConcatRange(LAMBDA k : IssuesAlone(files[k]), 1, Len(files))
    /\ epc = "raised" => RaisesAlone(lines, 0)

\* a call over two files returned issues for both of them
C15_Witness ==
    /\ epc = "returned"
    /\ Len(files) = 2
    /\ \E k \in DOMAIN issues : issues[k].file = files[1].path /\ issues[k].rule = 26
    /\ \E k \in DOMAIN issues : issues[k].file = files[2].path /\ issues[k].rule = 26


\* C16: every located function span has start line <= end line <= number of
\* lines of the file; with balanced braces the end line is the first line at
\* whose end the depth is back to zero after the opening brace, and with
\* braces that never balance the span ends at the last line of the file, its
\* length being the number of lines from the definition line to end-of-file.
C16_SpanBounds ==
    \A k \in DOMAIN spans :
        LET start == spans[k].start_idx + 1
            end   == spans[k].end_idx + 1
        IN  /\ start <= end /\ end <= Len(lines)
            /\ IF ClosingLine(lines, start) # 0
               THEN end = ClosingLine(lines, start)
               ELSE end = Len(lines) /\ spans[k].func_len = Len(lines) - start + 1


\* the located spans are pairwise disjoint and in increasing file order
SpansInOrder ==
    \A k, m \in DOMAIN spans : k < m => spans[k].end_idx < spans[m].start_idx

\* the findings made once per span are at the definition line of a located span
SpanFindingsAtSpans ==
    \A n \in DOMAIN issues :
        issues[n].tag \in {"length", "nesting", "param_count2", "unused_param"} =>
            \E k \in DOMAIN spans : issues[n].line = spans[k].start_idx + 1

\* C17: in the span-locating pass the scan position only moves forward, to
\* the line after the end of a located span, so the spans are pairwise disjoint
\* and in file order, and a function-like line inside a located span never
\* starts a span or gets span-level findings of its own.
C17_ScanForward ==
    /\ [](SpansInOrder /\ SpanFindingsAtSpans)
    /\ [][/\ epc = "spans" /\ epc' = "spans" => idx' > idx
          /\ Len(spans') > Len(spans) /\ epc' = "spans" =>
                idx' = spans'[Len(spans')].end_idx + 1]_vars

\* the engine returned for a file where a function-like line lies inside a
\* located span and starts no span
C17_Witness ==
    /\ epc = "returned"
    /\ \E k \in DOMAIN spans : \E l \in (spans[k].start_idx + 2)..Len(lines) :
          /\ l <= spans[k].end_idx + 1
          /\ func_def_re(Strip(lines[l])).ok
          /\ \A m \in DOMAIN spans : spans[m].start_idx + 1 # l


\* ---- files with several braces on a line ----
MaxNestLines == 4

NestCorpus == {"int n;", "void f(void) {", "{{{{", "}}}}", "}", "{{{{ x(); }}}}"}

InitNest == EngineInit(OneFileMaps(NestCorpus, MaxNestLines))
SpecNest == InitNest /\ [][NextEngine]_vars

\* the brace depth after each character of s from position p on, starting at
\* depth: the depth at the end of s and the greatest depth on the way
RECURSIVE CharDepth(_, _, _, _)
CharDepth(s, p, depth, peak) ==
    IF p > Len(s) THEN [depth |-> depth, peak |-> peak]
    ELSE LET d == IF Ch(s, p) = "{" THEN depth + 1
                  ELSE IF Ch(s, p) = "}" THEN depth - 1 ELSE depth
         IN  CharDepth(s, p + 1, d, IF d > peak THEN d ELSE peak)

\* the greatest brace depth reached at any character of lines a..b of ls
RECURSIVE PeakDepth(_, _, _, _, _)
PeakDepth(ls, a, b, depth, peak) ==
    IF a > b THEN peak
    ELSE LET lnos == SubAll(string_literal_re, "\"\"", ls[a], FALSE, 1)
             c    == CharDepth(lnos, 1, depth, peak)
         IN  PeakDepth(ls, a + 1, b, c.depth, c.peak)

\* C18: the nesting level of a span is max(0, D - 1), D the greatest brace
\* depth reached at any character of the span, depths opened and closed again
\* within one line included; the nesting finding of rule 12 is made once, at the
\* definition line, exactly when that level exceeds 3.
C18_NestingOfPeakDepth ==
    \A k \in DOMAIN spans :
        LET start   == spans[k].start_idx + 1
            end     == Min({spans[k].end_idx + 1, Len(lines)})
            D       == PeakDepth(lines, start, end, 0, 0)
            nesting == IF D - 1 > 0 THEN D - 1 ELSE 0
            found   == {n \in DOMAIN issues : issues[n].tag = "nesting" /\ issues[n].line = start}
        IN  /\ nesting = (IF spans[k].max_brace - 1 > 0 THEN spans[k].max_brace - 1 ELSE 0)
            /\ Cardinality(found) = (IF nesting > MaxNesting THEN 1 ELSE 0)


\* an issue of run_checks_on_files: its file is a key of the map, its line a
\* line of that file, its rule one of 0..29
EngineIssueOk(is) ==
    /\ is.rule \in 0..29
    /\ \E f \in DOMAIN files :
          /\ files[f].path = is.file
          /\ is.line \in 1..Len(files[f].lines)

\* an issue made by main: no file, no line, rule 0
ProjectIssueOk(is) == is.file = "None" /\ is.line = 0 /\ is.rule = 0

\* the issues of the list issues of run_checks_on_files are well-formed
EngineIssuesOk == \A k \in DOMAIN issues : EngineIssueOk(issues[k])

\* C19: every issue of run_checks_on_files names a file of the input map, a
\* line from 1 to the number of lines of that file and a rule in 0..29; every
\* project-level issue made in main has no file, no line and rule 0.
C19_IssueContract ==
    /\ EngineIssuesOk
    /\ \A k \in DOMAIN title_issues : ProjectIssueOk(title_issues[k])
    /\ \A k \in DOMAIN conflict_issues : ProjectIssueOk(conflict_issues[k])
    /\ \A k \in DOMAIN discussion_issues : ProjectIssueOk(discussion_issues[k])
    /\ \A k \in DOMAIN mr_issues : EngineIssueOk(mr_issues[k]) \/ ProjectIssueOk(mr_issues[k])

\* a merge request was decided with an issue of run_checks_on_files and a
\* project-level issue in its list
C19_Witness ==
    /\ summary = "fail"
    /\ \E k \in DOMAIN mr_issues : mr_issues[k].file # "None" /\ mr_issues[k].rule = 5
    /\ \E k \in DOMAIN mr_issues : mr_issues[k].file = "None"


\* ---- files with directives, declarations over two lines and a function ----
MaxTermLines == 3

TermCorpus == {"#define N 1", "int", "n;", "void f(void) {", "}"}

InitTerm == EngineInit(OneFileMaps(TermCorpus, MaxTermLines))

\* run_checks_on_files is one sequential call: while a statement is left to
\* execute the interpreter executes it, so the enabled step is taken
SpecTerm == InitTerm /\ [][NextEngine]_vars /\ WF_vars(NextEngine)

\* C20: run_checks_on_files terminates on every finite input.  In the span
\* pass idx grows at every iteration; in the global-variable scan the outer and
\* the nested loop move i past the current line or block at every iteration,
\* and when the nested loop has ended i is at the end of the region, so the
\* outer loop exits.
C20_Terminates ==
    /\ <>(epc \in {"returned", "raised"})
    /\ [][/\ epc = "spans" /\ epc' = "spans" => idx' > idx
          /\ epc = "globals" /\ epc' = "globals" => i' > i
          /\ epc = "globals_inner" /\ epc' = "globals_inner" => i' > i
          /\ epc = "globals_inner" /\ epc' = "globals" => i' >= Len(search_region(lines))
          /\ epc = "globals" /\ i >= Len(search_region(lines)) => epc' \in {"lines", "returned"}]_vars

\* the nested loop of the global-variable scan has moved to the end of the
\* region of a file in which the span pass located a function
C20_Witness ==
    /\ epc = "globals_inner"
    /\ i > 0 /\ i >= Len(search_region(lines))
    /\ spans # <<>>

====
